---- MODULE Spec2Model ----
(***************************************************************************)
(* Model of internal/distributor/distributor.go: Distributor.fundAccounts. *)
(*                                                                         *)
(* One call of fundAccounts is followed from its entry to its return.      *)
(* Every call on a collaborator (accountStore.GetAccount, txSigner.SignTx, *)
(* txBroadcaster.BroadcastTxWithCommit) is one step, and its outcome       *)
(* (a value or an error) is chosen by the environment.  All amounts are in *)
(* the single denomination common.Denomination, so a std.Coins value is    *)
(* modelled by its amount in that denomination.                            *)
(***************************************************************************)
EXTENDS Integers, Sequences, FiniteSets, TLC

\* ---- bounds of the model ----
MaxSub  == 3    \* at most this many sub-accounts after accounts[0]
MaxCoin == 3    \* a sub-account holds 0..MaxCoin
MaxFund == 5    \* the distributor account holds 0..MaxFund
MaxCost == 3    \* singleRunCost.Amount is 0..MaxCost
MaxSeq  == 1    \* the distributor's sequence number is 0..MaxSeq
WordBits == 4   \* bits of a machine word: uint64 and int64 are scaled to this width

\* common.DefaultGasFee, the fixed fee of one transfer (1ugnot)
DefaultGasFee == 1

\* common.InitialTxCost, the fixed base cost of one transaction of the run.
\* It is set in internal/common; the model takes a small positive amount, so
\* that the products of the cost model pass the scaled word width.
InitialTxCost == 2

VARIABLES
    transactions,    \* the transactions argument of Distribute (an unsigned word)
    accounts,        \* the accounts argument: a sequence of account ids
    singleRunCost,   \* the singleRunCost argument (its Amount)
    coins,           \* the store when the run starts: account id -> balance
    ledger,          \* the store now: coins plus the committed transfers
    sequence,        \* the store: the distributor account's Sequence
    pc,              \* where the call is: cost, scan, sign, broadcast, done, error, panic
    scanned,         \* number of entries of accounts[1:] the first loop has handled
    readyAccounts,   \* the readyAccounts slice
    shortAccounts,   \* the shortAccounts slice: records [account, missingFunds]
    distributorBalance, \* distributor.Coins as read by the one lookup (-1 before it)
    fundableIndex,   \* the fundableIndex counter
    nonce,           \* the local nonce (-1 before it is set)
    cur,             \* position of the second loop over shortAccounts (1-based)
    tx,              \* the transaction under construction: {} or {a record}
    result,          \* the returned slice: {} for nil / nothing yet, {list} otherwise
    err,             \* the returned error: "none" or its message
    getLog,          \* GetAccount calls observed by the store: [addr, ok]
    signLog,         \* SignTx calls observed by the signer: [to, amount, fee, nonce, ok]
    bcastLog         \* BroadcastTxWithCommit calls observed: [to, amount, fee, nonce, ok]

vars == <<transactions, accounts, singleRunCost, coins, ledger, sequence, pc, scanned, readyAccounts,
          shortAccounts, distributorBalance, fundableIndex, nonce, cur, tx,
          result, err, getLog, signLog, bcastLog>>

\* ---- helpers ----

\* the number of values of a machine word
WordSize == 2 ^ WordBits

\* the largest unsigned word
MaxUint64 == WordSize - 1

\* the signed word with the bits of the integer x (two's complement)
WrapInt64(x) ==
    LET r == ((x % WordSize) + WordSize) % WordSize
    IN  IF r < WordSize \div 2 THEN r ELSE r - WordSize

\* line 60: int64(transactions)
ToInt64(u) == WrapInt64(u)

\* line 74: common.DefaultGasFee.Add(common.InitialTxCost), its Amount
BaseTxCost == WrapInt64(DefaultGasFee + InitialTxCost)

\* lines 69-84: calculateRuntimeCosts, the Amount of the returned coin
calculateRuntimeCosts(totalTx) == WrapInt64(totalTx * BaseTxCost)

\* mutant of SubAccounts: accounts[0:], the distributor account is not skipped
SubAccountsWhole(accs) == accs

\* accounts[1:] of the Go slice (accounts[0] is TLA+ index 1)
SubAccounts(accs) == SubSeq(accs, 2, Len(accs))

Range(s) == {s[i] : i \in 1..Len(s)}

\* mutant of SubLookupAborts: the lookup error is ignored
SubLookupNeverAborts(ok) == FALSE

\* lines 107-109: err != nil after the sub-account lookup returns at once
SubLookupAborts(ok) == ~ok

\* lines 137-139: err != nil after the distributor lookup returns at once
DistributorLookupAborts(ok) == ~ok

\* mutant of SignAborts: the signing error is ignored
SignNeverAborts(ok) == FALSE

\* lines 184-186: err != nil after SignTx returns at once
SignAborts(ok) == ~ok

\* mutant of BroadcastAborts: the broadcast error is ignored
BroadcastNeverAborts(ok) == FALSE

\* lines 192-194: err != nil after BroadcastTxWithCommit returns at once
BroadcastAborts(ok) == ~ok

\* line 168: nonce := distributor.Sequence
InitialNonce(seq) == seq

\* mutant of NextNonce: the increment is missing
NextNonceStale(n) == n

\* line 189: nonce++
NextNonce(n) == n + 1

\* line 159: fundableIndex == 0
NothingFundable(k) == k = 0

\* mutant of IsShort: <= instead of <
IsShortOrEqual(amount, cost) == amount <= cost

\* line 112: subAccount.Coins.AmountOf(denom) < singleRunCost.Amount
IsShort(amount, cost) == amount < cost

\* mutant of MissingFunds: the balance the account already holds is ignored
MissingFundsWholeCost(amount, cost) == cost

\* line 118: singleRunCost.Amount - subAccount.Coins.AmountOf(denom)
MissingFunds(amount, cost) == cost - amount

\* lines 131-133: less(i, j) of sort.Slice
IsLT(a, b) == a.missingFunds < b.missingFunds

\* s is ordered by the less function of sort.Slice
IsSortedBy(s) == \A i, j \in 1..Len(s) : i < j => ~IsLT(s[j], s[i])

Perms(s) == {p \in [1..Len(s) -> 1..Len(s)] : \A i, j \in 1..Len(s) : p[i] = p[j] => i = j}

\* mutant of SortSlice: the slice is left in scan order
SortSliceNone(s) == {s}

\* lines 131-133: sort.Slice is not stable: any ordered permutation may result
SortSlice(s) ==
    {t \in {[i \in 1..Len(s) |-> s[p[i]]] : p \in Perms(s)} : IsSortedBy(t)}

\* mutant of TransferCost: the fee is left out
TransferCostNoFee(missing) == missing

\* line 146: DefaultGasFee.Add(account.missingFunds)
TransferCost(missing) == DefaultGasFee + missing

\* line 148: Coins.IsAllLT, one denomination
IsAllLT(balance, cost) == balance < cost

\* line 156: distributorBalance.Sub(transferCost) is an expression statement:
\* Coins.Sub returns the difference as a new value and that value is dropped,
\* so distributorBalance is the same for the next iteration
AfterSub(balance, cost) == balance

RECURSIVE CountFundable(_, _, _)
\* lines 144-157: the loop that counts fundableIndex, from position i on
CountFundable(short, balance, i) ==
    IF i > Len(short) THEN 0
    ELSE IF IsAllLT(balance, TransferCost(short[i].missingFunds)) THEN 0
    ELSE 1 + CountFundable(short, AfterSub(balance, TransferCost(short[i].missingFunds)), i + 1)

\* line 170: the slice the second loop ranges over
TransferTargets(short, k) == short

\* mutant of MakeTx: the fee is taken out of the amount sent
MakeTxFeeDeducted(account, n) ==
    [to |-> account.account, amount |-> account.missingFunds - DefaultGasFee,
     fee |-> DefaultGasFee, nonce |-> n]

\* lines 172-181: the transaction for one short account
MakeTx(account, n) ==
    [to |-> account.account, amount |-> account.missingFunds,
     fee |-> DefaultGasFee, nonce |-> n]

\* the ledger after it has committed transfer t of account from: the recipient
\* is credited the amount, the sender pays the amount and the fee
ApplyTransfer(l, from, t) ==
    [a \in DOMAIN l |->
        l[a] + (IF a = t.to THEN t.amount ELSE 0)
             - (IF a = from THEN t.amount + t.fee ELSE 0)]

\* ---- initial states: the arguments and the store ----

AccountList(n) == [i \in 1..(n + 1) |-> i - 1]

\* the accounts argument, the store and the locals, as any call finds them
InitCall ==
    /\ accounts \in {<<>>} \cup {AccountList(n) : n \in 0..MaxSub}
    /\ \E c \in [Range(SubAccounts(accounts)) -> 0..MaxCoin], f \in 0..MaxFund :
          coins = [a \in Range(accounts) |-> IF a = 0 THEN f ELSE c[a]]
    /\ ledger = coins
    /\ sequence \in 0..MaxSeq
    /\ scanned = 0
    /\ readyAccounts = <<>>
    /\ shortAccounts = <<>>
    /\ distributorBalance = -1
    /\ fundableIndex = 0
    /\ nonce = -1
    /\ cur = 0
    /\ tx = {}
    /\ result = {}
    /\ err = "none"
    /\ getLog = <<>>
    /\ signLog = <<>>
    /\ bcastLog = <<>>

\* the entry of fundAccounts, for every singleRunCost; transactions, which
\* only Distribute reads, plays no part and is 0
Init ==
    /\ transactions = 0
    /\ singleRunCost \in 0..MaxCost
    /\ pc = "scan"
    /\ InitCall

\* the entry of Distribute, for every transactions; singleRunCost is not
\* computed yet
InitDistribute ==
    /\ transactions \in 0..MaxUint64
    /\ singleRunCost = 0
    /\ pc = "cost"
    /\ InitCall

\* ---- steps of Distribute and fundAccounts ----

\* lines 55-64: the cost of the run for one sub-account, then fundAccounts
Distribute ==
    /\ pc = "cost"
    /\ singleRunCost' = calculateRuntimeCosts(ToInt64(transactions))
    /\ pc' = "scan"
    /\ UNCHANGED <<transactions, accounts, coins, ledger, sequence, scanned,
                   readyAccounts, shortAccounts, distributorBalance, fundableIndex,
                   nonce, cur, tx, result, err, getLog, signLog, bcastLog>>


\* line 104: accounts[1:] of an empty slice panics (slice bounds out of range)
SlicePanic ==
    /\ pc = "scan"
    /\ Len(accounts) = 0
    /\ pc' = "panic"
    /\ UNCHANGED <<transactions, accounts, singleRunCost, coins, ledger, sequence, scanned,
                   readyAccounts, shortAccounts, distributorBalance, fundableIndex,
                   nonce, cur, tx, result, err, getLog, signLog, bcastLog>>

\* lines 104-127: one iteration of the first loop
ScanAccount ==
    /\ pc = "scan"
    /\ Len(accounts) > 0
    /\ scanned < Len(SubAccounts(accounts))
    /\ LET account == SubAccounts(accounts)[scanned + 1] IN
       \E ok \in BOOLEAN :
          /\ getLog' = Append(getLog, [addr |-> account, ok |-> ok])
          /\ IF SubLookupAborts(ok)
             THEN /\ pc' = "error"
                  /\ err' = "unable to fetch sub-account"
                  /\ result' = {}
                  /\ UNCHANGED <<scanned, readyAccounts, shortAccounts>>
             ELSE /\ scanned' = scanned + 1
                  /\ IF IsShort(ledger[account], singleRunCost)
                     THEN /\ shortAccounts' = Append(shortAccounts,
                                 [account |-> account,
                                  missingFunds |-> MissingFunds(ledger[account], singleRunCost)])
                          /\ UNCHANGED readyAccounts
                     ELSE /\ readyAccounts' = Append(readyAccounts, account)
                          /\ UNCHANGED shortAccounts
                  /\ UNCHANGED <<pc, err, result>>
    /\ UNCHANGED <<transactions, accounts, singleRunCost, coins, ledger, sequence,
                   distributorBalance, fundableIndex, nonce, cur, tx, signLog, bcastLog>>

\* lines 129-168: sort, the distributor lookup, the count of fundable accounts
Allocate ==
    /\ pc = "scan"
    /\ Len(accounts) > 0
    /\ scanned = Len(SubAccounts(accounts))
    /\ \E sorted \in SortSlice(shortAccounts), ok \in BOOLEAN :
          /\ shortAccounts' = sorted
          /\ getLog' = Append(getLog, [addr |-> accounts[1], ok |-> ok])
          /\ IF DistributorLookupAborts(ok)
             THEN /\ pc' = "error"
                  /\ err' = "unable to fetch distributor account"
                  /\ result' = {}
                  /\ UNCHANGED <<distributorBalance, fundableIndex, nonce, cur>>
             ELSE /\ distributorBalance' = ledger[accounts[1]]
                  /\ fundableIndex' = CountFundable(sorted, ledger[accounts[1]], 1)
                  /\ IF NothingFundable(fundableIndex')
                     THEN /\ pc' = "error"
                          /\ err' = "insufficient distributor funds"
                          /\ result' = {}
                          /\ UNCHANGED <<nonce, cur>>
                     ELSE /\ nonce' = InitialNonce(sequence)
                          /\ cur' = 1
                          /\ pc' = IF Len(TransferTargets(sorted, fundableIndex')) = 0
                                   THEN "done" ELSE "sign"
                          /\ result' = IF Len(TransferTargets(sorted, fundableIndex')) = 0
                                       THEN {readyAccounts} ELSE {}
                          /\ UNCHANGED err
    /\ UNCHANGED <<transactions, accounts, singleRunCost, coins, ledger, sequence, scanned,
                   readyAccounts, tx, signLog, bcastLog>>

\* lines 170-189: build the transaction and sign it
SignTx ==
    /\ pc = "sign"
    /\ LET account == TransferTargets(shortAccounts, fundableIndex)[cur]
           t == MakeTx(account, nonce) IN
       \E ok \in BOOLEAN :
          /\ signLog' = Append(signLog, [to |-> t.to, amount |-> t.amount,
                                         fee |-> t.fee, nonce |-> t.nonce, ok |-> ok])
          /\ IF SignAborts(ok)
             THEN /\ pc' = "error"
                  /\ err' = "unable to sign transaction"
                  /\ result' = {}
                  /\ UNCHANGED <<nonce, tx>>
             ELSE /\ tx' = {t}
                  /\ nonce' = NextNonce(nonce)
                  /\ pc' = "broadcast"
                  /\ UNCHANGED <<err, result>>
    /\ UNCHANGED <<transactions, accounts, singleRunCost, coins, ledger, sequence, scanned,
                   readyAccounts, shortAccounts, distributorBalance, fundableIndex, cur,
                   getLog, bcastLog>>

\* lines 191-200: broadcast, wait for the commit, mark the account as funded
BroadcastTxWithCommit ==
    /\ pc = "broadcast"
    /\ LET targets == TransferTargets(shortAccounts, fundableIndex) IN
       \E t \in tx, ok \in BOOLEAN :
          /\ bcastLog' = Append(bcastLog, [to |-> t.to, amount |-> t.amount,
                                           fee |-> t.fee, nonce |-> t.nonce, ok |-> ok])
          /\ ledger' = IF ok THEN ApplyTransfer(ledger, accounts[1], t) ELSE ledger
          /\ IF BroadcastAborts(ok)
             THEN /\ pc' = "error"
                  /\ err' = "unable to broadcast tx with commit"
                  /\ result' = {}
                  /\ UNCHANGED <<readyAccounts, cur>>
             ELSE /\ readyAccounts' = Append(readyAccounts, targets[cur].account)
                  /\ cur' = cur + 1
                  /\ IF cur + 1 > Len(targets)
                     THEN /\ pc' = "done"
                          /\ result' = {readyAccounts'}
                     ELSE /\ pc' = "sign"
                          /\ UNCHANGED result
                  /\ UNCHANGED err
    /\ tx' = {}
    /\ UNCHANGED <<transactions, accounts, singleRunCost, coins, sequence, scanned, shortAccounts,
                   distributorBalance, fundableIndex, nonce, getLog, signLog>>

Next ==
    \/ SlicePanic
    \/ ScanAccount
    \/ Allocate
    \/ SignTx
    \/ BroadcastTxWithCommit

Spec == Init /\ [][Next]_vars

NextDistribute ==
    \/ Distribute
    \/ Next

\* Distribute from its entry, through fundAccounts, to its return
DistributeSpec == InitDistribute /\ [][NextDistribute]_vars

\* ---- properties ----

\* the call has returned
Returned == pc \in {"done", "error"}

\* the distributor lookup succeeded, so fundableIndex has been counted
Allocated == distributorBalance >= 0

RECURSIVE Spent(_, _)
\* amount + fee summed over the first k submitted transactions
Spent(log, k) == IF k = 0 THEN 0 ELSE Spent(log, k - 1) + log[k].amount + log[k].fee

RECURSIVE PrefixCost(_, _)
\* shortfall + fee summed over the first k short accounts
PrefixCost(short, k) ==
    IF k = 0 THEN 0 ELSE PrefixCost(short, k - 1) + short[k].missingFunds + DefaultGasFee

\* the largest k whose first k short accounts cost no more than the balance
GreedyCount(short, balance) ==
    CHOOSE k \in 0..Len(short) :
        /\ PrefixCost(short, k) <= balance
        /\ \A m \in 0..Len(short) : PrefixCost(short, m) <= balance => m <= k

\* C1: the transfers signed and submitted never cost, amounts plus fees, more
\* than the distributor balance read by the one lookup before allocation.
C1_SpendWithinBalance ==
    Allocated => Spent(bcastLog, Len(bcastLog)) <= distributorBalance

\* C2: only the first fundableIndex short accounts are signed and broadcast,
\* and a run that completes has issued exactly fundableIndex transfers.
C2_ExactlyAffordablePrefix ==
    /\ Len(signLog) <= fundableIndex
    /\ Len(bcastLog) <= fundableIndex
    /\ pc = "done" => Len(bcastLog) = fundableIndex

\* C3: the count of fundable accounts is the largest k such that the first k
\* short accounts cost, shortfalls plus fees, no more than the starting balance.
C3_GreedyCountIsMaximalPrefix ==
    Allocated => fundableIndex = GreedyCount(shortAccounts, distributorBalance)

\* every sub-account holds the required balance and every lookup has succeeded
NothingToFund ==
    /\ Len(accounts) > 0
    /\ \A a \in Range(SubAccounts(accounts)) : coins[a] >= singleRunCost
    /\ \A i \in 1..Len(getLog) : getLog[i].ok

\* C4: when every sub-account already holds the required balance the run
\* succeeds with no transfer and returns accounts[1:]; it does not report
\* insufficient distributor funds.
C4_NothingToFundSucceeds ==
    (NothingToFund /\ Returned) =>
        /\ pc = "done"
        /\ err = "none"
        /\ result = {SubAccounts(accounts)}
        /\ signLog = <<>>
        /\ bcastLog = <<>>

RECURSIVE CountOk(_, _)
\* the number of successful calls among the first k of a log
CountOk(log, k) ==
    IF k = 0 THEN 0 ELSE CountOk(log, k - 1) + (IF log[k].ok THEN 1 ELSE 0)

\* the smallest shortfall of a non-empty short list
MinShortfall(short) ==
    CHOOSE m \in {short[i].missingFunds : i \in 1..Len(short)} :
        \A i \in 1..Len(short) : m <= short[i].missingFunds

\* some account is short and the balance read is below smallest shortfall + fee
CannotFundCheapest ==
    /\ Allocated
    /\ shortAccounts # <<>>
    /\ distributorBalance < MinShortfall(shortAccounts) + DefaultGasFee

\* C5: if some account is short and the distributor balance is below the
\* smallest shortfall plus the fee, the run fails with "insufficient
\* distributor funds", returns no list, and signs and broadcasts nothing.
C5_InsufficientFunds ==
    CannotFundCheapest =>
        /\ pc = "error"
        /\ err = "insufficient distributor funds"
        /\ result = {}
        /\ signLog = <<>>
        /\ bcastLog = <<>>

C5_Witness ==
    /\ CannotFundCheapest
    /\ Len(shortAccounts) >= 2
    /\ shortAccounts[1].missingFunds < shortAccounts[2].missingFunds
    /\ distributorBalance = shortAccounts[1].missingFunds
    /\ err = "insufficient distributor funds"

\* C6: once set, the local nonce equals the sequence number of the one
\* distributor lookup plus the number of SignTx calls that succeeded; the i-th
\* SignTx call carries nonce sequence + (i - 1); a failed sign adds nothing.
C6_NonceDiscipline ==
    /\ pc \in {"sign", "broadcast", "done"} => nonce # -1
    /\ nonce # -1 => nonce = sequence + CountOk(signLog, Len(signLog))
    /\ \A i \in 1..Len(signLog) : signLog[i].nonce = sequence + (i - 1)
    /\ \A i \in 1..Len(bcastLog) : bcastLog[i].nonce = sequence + (i - 1)

C6_Witness ==
    /\ sequence = 1
    /\ Len(signLog) = 3
    /\ ~signLog[3].ok
    /\ nonce = 3

\* C7: transfer i+1 is signed only after BroadcastTxWithCommit of transfer i
\* has returned success, so at most one signed transfer is unconfirmed.
C7_StrictlySequential ==
    /\ \A i \in 2..Len(signLog) :
          /\ Len(bcastLog) >= i - 1
          /\ bcastLog[i - 1].ok
          /\ bcastLog[i - 1].to = signLog[i - 1].to
          /\ bcastLog[i - 1].nonce = signLog[i - 1].nonce
    /\ CountOk(signLog, Len(signLog)) - CountOk(bcastLog, Len(bcastLog)) \in {0, 1}

C7_Witness ==
    /\ pc = "broadcast"
    /\ Len(signLog) = 3
    /\ Len(bcastLog) = 2

\* C8: a SignTx or BroadcastTxWithCommit failure is the last call of the run,
\* and the run returns that error with no account list, whatever was
\* committed before.
C8_FailureAborts ==
    /\ \A i \in 1..Len(signLog) : ~signLog[i].ok =>
          /\ i = Len(signLog)
          /\ Len(bcastLog) = i - 1
          /\ pc = "error"
          /\ err = "unable to sign transaction"
          /\ result = {}
    /\ \A i \in 1..Len(bcastLog) : ~bcastLog[i].ok =>
          /\ i = Len(bcastLog)
          /\ Len(signLog) = i
          /\ pc = "error"
          /\ err = "unable to broadcast tx with commit"
          /\ result = {}

C8_Witness ==
    /\ Len(bcastLog) = 2
    /\ bcastLog[1].ok
    /\ ~bcastLog[2].ok
    /\ Len(shortAccounts) = 3
    /\ pc = "error"
    /\ result = {}

\* C9: a failed GetAccount call is the last lookup of the run; the run
\* returns the error of that lookup with no list, and no SignTx or
\* BroadcastTxWithCommit call has been made.
C9_LookupFailureAborts ==
    \A i \in 1..Len(getLog) : ~getLog[i].ok =>
        /\ i = Len(getLog)
        /\ pc = "error"
        /\ err = IF getLog[i].addr = accounts[1]
                 THEN "unable to fetch distributor account"
                 ELSE "unable to fetch sub-account"
        /\ result = {}
        /\ signLog = <<>>
        /\ bcastLog = <<>>

C9_Witness ==
    /\ Len(getLog) = 3
    /\ ~getLog[3].ok
    /\ getLog[3].addr # accounts[1]
    /\ Len(accounts) = 4
    /\ readyAccounts # <<>>
    /\ shortAccounts # <<>>
    /\ pc = "error"

\* the sub-accounts the first loop has handled
ScannedSet == {SubAccounts(accounts)[i] : i \in 1..scanned}

ReadySet == Range(readyAccounts)

ShortSet == {shortAccounts[i].account : i \in 1..Len(shortAccounts)}

\* C10: of the sub-accounts scanned, those holding at least singleRunCost are
\* in the ready list and the others in the short list with shortfall
\* singleRunCost - balance > 0; the lists are disjoint and cover accounts[1:];
\* accounts[0] is in neither and no transfer is addressed to it.
C10_ScanPartition ==
    Len(accounts) > 0 =>
        /\ CountOk(bcastLog, Len(bcastLog)) = 0 =>
              /\ \A a \in ScannedSet : a \in ReadySet <=> coins[a] >= singleRunCost
              /\ Len(readyAccounts) + Len(shortAccounts) = scanned
        /\ \A a \in ScannedSet : a \in ShortSet <=> coins[a] < singleRunCost
        /\ ReadySet \cup ShortSet = ScannedSet
        /\ pc # "scan" /\ Allocated => ScannedSet = Range(SubAccounts(accounts))
        /\ \A i \in 1..Len(shortAccounts) :
              /\ shortAccounts[i].missingFunds
                    = singleRunCost - coins[shortAccounts[i].account]
              /\ shortAccounts[i].missingFunds > 0
        /\ accounts[1] \notin ReadySet \cup ShortSet
        /\ \A i \in 1..Len(signLog) : signLog[i].to # accounts[1]
        /\ \A i \in 1..Len(bcastLog) : bcastLog[i].to # accounts[1]

C10_Witness ==
    /\ pc = "scan"
    /\ Len(accounts) = 4
    /\ scanned = 3
    /\ singleRunCost = 2
    /\ coins[1] = 2
    /\ coins[2] = 1
    /\ coins[3] = 3
    /\ readyAccounts = <<1, 3>>
    /\ shortAccounts = <<[account |-> 2, missingFunds |-> 1]>>

\* the amounts of a call log never decrease from one call to the next
NonDecreasing(log) ==
    \A i, j \in 1..Len(log) : i < j => log[i].amount <= log[j].amount

\* C11: the short list the second loop consumes is ordered by non-decreasing
\* shortfall, so the amounts signed and the amounts broadcast never decrease,
\* whatever the order of the accounts argument.
C11_SortedExecution ==
    /\ pc \in {"sign", "broadcast", "done"} =>
          \A i, j \in 1..Len(shortAccounts) :
              i < j => shortAccounts[i].missingFunds <= shortAccounts[j].missingFunds
    /\ NonDecreasing(signLog)
    /\ NonDecreasing(bcastLog)

C11_Witness ==
    /\ Len(accounts) = 4
    /\ coins[1] < coins[2]
    /\ coins[2] < coins[3]
    /\ Len(bcastLog) = 3
    /\ bcastLog[1].to = 3
    /\ bcastLog[2].to = 2
    /\ bcastLog[3].to = 1
    /\ bcastLog[1].amount < bcastLog[2].amount
    /\ bcastLog[2].amount < bcastLog[3].amount

\* the sub-accounts that held the required balance when the run started
OriginallyReady == {a \in Range(SubAccounts(accounts)) : coins[a] >= singleRunCost}

\* the recipients of the transfers whose broadcast returned success
Committed == {bcastLog[i].to : i \in {k \in 1..Len(bcastLog) : bcastLog[k].ok}}

\* C12: a run that succeeds returns, as a set, the originally ready accounts
\* and the accounts whose transfer was committed, and no short account beyond
\* the first fundableIndex ones.
C12_ReturnedSet ==
    pc = "done" =>
        \A list \in result :
            /\ Range(list) = OriginallyReady \cup Committed
            /\ \A i \in (fundableIndex + 1)..Len(shortAccounts) :
                  shortAccounts[i].account \notin Range(list)

RECURSIVE Debited(_, _)
\* amount + fee summed over the committed ones of the first k broadcasts
Debited(log, k) ==
    IF k = 0 THEN 0
    ELSE Debited(log, k - 1) + (IF log[k].ok THEN log[k].amount + log[k].fee ELSE 0)

\* C13: every transfer sends exactly the recipient's shortfall and carries the
\* fixed fee beside it; once committed, the recipient holds exactly
\* singleRunCost and the distributor has paid the shortfall plus the fee.
C13_ExactShortfallTransfer ==
    Len(accounts) > 0 =>
        /\ \A i \in 1..Len(signLog) :
              /\ signLog[i].amount = singleRunCost - coins[signLog[i].to]
              /\ signLog[i].fee = DefaultGasFee
        /\ \A i \in 1..Len(bcastLog) :
              /\ bcastLog[i].amount = singleRunCost - coins[bcastLog[i].to]
              /\ bcastLog[i].fee = DefaultGasFee
        /\ \A a \in Range(SubAccounts(accounts)) :
              ledger[a] = IF a \in Committed THEN singleRunCost ELSE coins[a]
        /\ ledger[accounts[1]] = coins[accounts[1]] - Debited(bcastLog, Len(bcastLog))

C13_Witness ==
    /\ Len(bcastLog) = 2
    /\ bcastLog[1].ok
    /\ bcastLog[2].ok
    /\ bcastLog[1].amount < bcastLog[2].amount
    /\ ledger[bcastLog[1].to] = singleRunCost
    /\ ledger[bcastLog[2].to] = singleRunCost
    /\ ledger[accounts[1]] = coins[accounts[1]] - bcastLog[1].amount - bcastLog[2].amount - 2
    /\ ledger[accounts[1]] >= 0

\* C14: for every transactions the cost of a run is transactions times
\* (DefaultGasFee + InitialTxCost), and it is not negative: neither the
\* conversion to a signed word nor the multiplication wraps around.
C14_CostModelExact ==
    pc # "cost" =>
        /\ singleRunCost = transactions * (DefaultGasFee + InitialTxCost)
        /\ singleRunCost >= 0

\* the sub-accounts scanned so far, in the order of the accounts argument
ScannedSeq == SubSeq(accounts, 2, scanned + 1)

\* the ready list fixed by the arguments and the store alone
ReadyOf(subs) ==
    LET Funded(a) == coins[a] >= singleRunCost
    IN  SelectSeq(subs, Funded)

\* the short list fixed by the arguments and the store alone
ShortOf(subs) ==
    LET Lacking(a) == coins[a] < singleRunCost
        lacking == SelectSeq(subs, Lacking)
    IN  [i \in 1..Len(lacking) |->
            [account |-> lacking[i], missingFunds |-> singleRunCost - coins[lacking[i]]]]

\* C15: the scan is repeatable: it leaves the store as it found it, and its
\* ready list and short list, shortfalls included, are fixed by the accounts
\* argument, the required balance and the store, so a second scan of the same
\* store gives the same lists.
C15_ScanRepeatable ==
    (pc = "scan" /\ Len(accounts) > 0) =>
        /\ ledger = coins
        /\ readyAccounts = ReadyOf(ScannedSeq)
        /\ shortAccounts = ShortOf(ScannedSeq)

C15_Witness ==
    /\ pc = "scan"
    /\ Len(accounts) = 4
    /\ scanned = 3
    /\ Len(shortAccounts) = 2
    /\ shortAccounts[1].missingFunds > shortAccounts[2].missingFunds
    /\ shortAccounts[2].missingFunds < singleRunCost
    /\ Len(readyAccounts) = 1

\* C16: GetAccount is called once for each entry of accounts[1:], in order,
\* then once for accounts[0], and never again; no SignTx or
\* BroadcastTxWithCommit call is made before the distributor lookup has
\* succeeded, and no GetAccount call is made after the first SignTx.
C16_LookupDiscipline ==
    /\ Len(getLog) <= Len(accounts)
    /\ \A i \in 1..Len(getLog) :
          getLog[i].addr = IF i < Len(accounts) THEN accounts[i + 1] ELSE accounts[1]
    /\ pc = "scan" => (signLog = <<>> /\ bcastLog = <<>>)
    /\ (Allocated \/ signLog # <<>> \/ bcastLog # <<>> \/ pc = "done") =>
          /\ Len(getLog) = Len(accounts)
          /\ \A i \in 1..Len(getLog) : getLog[i].ok
          /\ distributorBalance = coins[accounts[1]]

C16_Witness ==
    /\ pc = "done"
    /\ Len(accounts) = 4
    /\ Len(getLog) = 4
    /\ getLog[4].addr = accounts[1]
    /\ Len(signLog) = 2
    /\ Len(bcastLog) = 2

\* C17: with every committed transfer applied exactly and no other change to
\* the store, the distributor's balance never goes below zero, and every
\* account of a list returned without error holds at least singleRunCost.
C17_SuccessPostcondition ==
    Len(accounts) > 0 =>
        /\ ledger[accounts[1]] >= 0
        /\ pc = "done" =>
              \A list \in result : \A a \in Range(list) : ledger[a] >= singleRunCost

\* C18: the i-th transaction broadcast is the i-th transaction signed, and its
\* signing succeeded; no transaction is broadcast twice; the successful SignTx
\* calls outnumber the BroadcastTxWithCommit calls by one while a broadcast is
\* due and by none otherwise; SignTx is called at most once per short account.
C18_SignBroadcastPairing ==
    /\ Len(bcastLog) <= Len(signLog)
    /\ \A i \in 1..Len(bcastLog) :
          /\ signLog[i].ok
          /\ signLog[i].to = bcastLog[i].to
          /\ signLog[i].amount = bcastLog[i].amount
          /\ signLog[i].fee = bcastLog[i].fee
          /\ signLog[i].nonce = bcastLog[i].nonce
    /\ \A i, j \in 1..Len(bcastLog) :
          i # j => (bcastLog[i].to # bcastLog[j].to /\ bcastLog[i].nonce # bcastLog[j].nonce)
    /\ CountOk(signLog, Len(signLog)) - Len(bcastLog) = (IF pc = "broadcast" THEN 1 ELSE 0)
    /\ Len(signLog) <= Len(shortAccounts)

C18_Witness ==
    /\ pc = "done"
    /\ Len(shortAccounts) = 3
    /\ Len(signLog) = 3
    /\ Len(bcastLog) = 3
    /\ signLog[3].nonce = sequence + 2

====
